---- MODULE Spec2Model ----
(***************************************************************************)
(* The tool dispatcher of mcp-server-sqlite-npx (src/src/index.ts): the    *)
(* two request handlers registered on the MCP server, the SqliteDatabase   *)
(* wrapper with its three statement gates, the zod argument schemas, and   *)
(* the behaviour of the better-sqlite3 handle on the statements used here. *)
(* SQL text and string arguments are sequences of one-character strings,   *)
(* so that trim / toUpperCase / startsWith and template interpolation are  *)
(* computed character by character; messages and payloads are strings.     *)
(***************************************************************************)
EXTENDS Integers, Sequences, FiniteSets, TLC

VARIABLES
    pc,        \* "start", "serving", "exited" (process.exit) or "crashed"
    db,        \* contents of the database file behind the handle
    call,      \* the last request handled, with the database it found
    response,  \* what the handler returned for it
    prepared,  \* the texts that request gave to db.prepare
    tracked,   \* history: the row last inserted by write_query, while untouched
    created,   \* history: the table last created by create_table, while not dropped
    listed,    \* history: the last list_tables text since the last mutating call
    pending,   \* tool-call requests read from the transport, not yet dispatched
    invocations, \* handler invocations that were entered and have not returned
    thread,    \* the invocation that holds the JavaScript thread, 0 when idle
    served,    \* history: the invocations of this burst that returned, in order
    base,      \* history: the database when this burst of requests began
    replay     \* history: a server that was never sent the requests that fail

vars ==
    <<pc, db, call, response, prepared, tracked, created, listed, pending,
      invocations, thread, served, base, replay>>

\* Largest number of tool-call requests waiting or running at once.
MaxPending == 2

\* Largest number of rows a table holds in the model.
MaxRows == 2

(***************************************************************************)
(* Strings: String.prototype.trim, toUpperCase and startsWith.             *)
(***************************************************************************)
WhiteSpace == {" ", "\t", "\n", "\r"}

LowerCase ==
    <<"a", "b", "c", "d", "e", "f", "g", "h", "i", "j", "k", "l", "m",
      "n", "o", "p", "q", "r", "s", "t", "u", "v", "w", "x", "y", "z">>

UpperCase ==
    <<"A", "B", "C", "D", "E", "F", "G", "H", "I", "J", "K", "L", "M",
      "N", "O", "P", "Q", "R", "S", "T", "U", "V", "W", "X", "Y", "Z">>

\* The upper-case letter of each lower-case letter.
UpperOf == [c \in {LowerCase[i] : i \in 1..26} |->
              UpperCase[CHOOSE i \in 1..26 : LowerCase[i] = c]]

UpperChar(c) == IF c \in DOMAIN UpperOf THEN UpperOf[c] ELSE c

toUpperCase(s) ==
    IF Len(s) = 0 THEN <<>> ELSE [i \in 1..Len(s) |-> UpperChar(s[i])]

\* Index of the first character of s at or after i that is not white space.
RECURSIVE trimStart(_, _)
trimStart(s, i) ==
    IF i > Len(s) \/ s[i] \notin WhiteSpace THEN i ELSE trimStart(s, i + 1)

\* Index of the last character of s at or before i that is not white space.
RECURSIVE trimEnd(_, _)
trimEnd(s, i) ==
    IF i < 1 \/ s[i] \notin WhiteSpace THEN i ELSE trimEnd(s, i - 1)

trim(s) == SubSeq(s, trimStart(s, 1), trimEnd(s, Len(s)))

startsWith(s, prefix) ==
    Len(s) >= Len(prefix) /\ SubSeq(s, 1, Len(prefix)) = prefix

\* The string a character sequence spells (used inside messages).
RECURSIVE CharsToString(_)
CharsToString(s) ==
    IF Len(s) = 0 THEN "" ELSE Head(s) \o CharsToString(Tail(s))

(***************************************************************************)
(* Literals of the source and the SQL texts and names used as inputs.      *)
(* The C_ sequences are the statement forms the engine recognises, after   *)
(* its tokenizer has dropped comments and folded case.                     *)
(***************************************************************************)
\* 'SELECT'
KW_SELECT ==
    <<"S", "E", "L", "E", "C", "T">>
\* 'CREATE TABLE'
KW_CREATE_TABLE ==
    <<"C", "R", "E", "A", "T", "E", " ", "T", "A", "B", "L", "E">>
\* "SELECT name FROM sqlite_master WHERE type='table'"
SQL_LIST_TABLES ==
    <<"S", "E", "L", "E", "C", "T", " ", "n", "a", "m", "e", " ", "F", "R", "O", "M", " ", "s", "q", "l", "i", "t", "e", "_", "m", "a", "s", "t", "e", "r", " ", "W", "H", "E", "R", "E", " ", "t", "y", "p", "e", "=", "'", "t", "a", "b", "l", "e", "'">>
\* 'PRAGMA table_info('
PRAGMA_OPEN ==
    <<"P", "R", "A", "G", "M", "A", " ", "t", "a", "b", "l", "e", "_", "i", "n", "f", "o", "(">>
\* ')'
PRAGMA_CLOSE ==
    <<")">>
\* 'SELECT * FROM t'
Q_SELECT_T ==
    <<"S", "E", "L", "E", "C", "T", " ", "*", " ", "F", "R", "O", "M", " ", "t">>
\* '  select * from t\n'
Q_select_t_ws ==
    <<" ", " ", "s", "e", "l", "e", "c", "t", " ", "*", " ", "f", "r", "o", "m", " ", "t", "\n">>
\* 'SELECTED'
Q_SELECTED ==
    <<"S", "E", "L", "E", "C", "T", "E", "D">>
\* '-- c\nSELECT 1'
Q_COMMENT_SELECT ==
    <<"-", "-", " ", "c", "\n", "S", "E", "L", "E", "C", "T", " ", "1">>
\* 'INSERT INTO t(x) VALUES (1)'
Q_INSERT_T ==
    <<"I", "N", "S", "E", "R", "T", " ", "I", "N", "T", "O", " ", "t", "(", "x", ")", " ", "V", "A", "L", "U", "E", "S", " ", "(", "1", ")">>
\* 'UPDATE t SET x=2'
Q_UPDATE_T ==
    <<"U", "P", "D", "A", "T", "E", " ", "t", " ", "S", "E", "T", " ", "x", "=", "2">>
\* 'DROP TABLE t'
Q_DROP_T ==
    <<"D", "R", "O", "P", " ", "T", "A", "B", "L", "E", " ", "t">>
\* 'CREATE TABLE t (x INTEGER)'
Q_CREATE_T ==
    <<"C", "R", "E", "A", "T", "E", " ", "T", "A", "B", "L", "E", " ", "t", " ", "(", "x", " ", "I", "N", "T", "E", "G", "E", "R", ")">>
\* 'CREATE TABLE temp.v (x INTEGER)'
Q_CREATE_TEMP_V ==
    <<"C", "R", "E", "A", "T", "E", " ", "T", "A", "B", "L", "E", " ", "t", "e", "m", "p", ".", "v", " ", "(", "x", " ", "I", "N", "T", "E", "G", "E", "R", ")">>
\* 't'
N_t ==
    <<"t">>
\* 't) --'
N_comment ==
    <<"t", ")", " ", "-", "-">>
\* 't); DROP TABLE t; --'
N_inject ==
    <<"t", ")", ";", " ", "D", "R", "O", "P", " ", "T", "A", "B", "L", "E", " ", "t", ";", " ", "-", "-">>
\* 'SELECT 1'
C_SELECT_1 ==
    <<"S", "E", "L", "E", "C", "T", " ", "1">>
\* 'SELECT * FROM T'
C_SELECT_T ==
    <<"S", "E", "L", "E", "C", "T", " ", "*", " ", "F", "R", "O", "M", " ", "T">>
\* 'INSERT INTO T(X) VALUES (1)'
C_INSERT_T ==
    <<"I", "N", "S", "E", "R", "T", " ", "I", "N", "T", "O", " ", "T", "(", "X", ")", " ", "V", "A", "L", "U", "E", "S", " ", "(", "1", ")">>
\* 'UPDATE T SET X=2'
C_UPDATE_T ==
    <<"U", "P", "D", "A", "T", "E", " ", "T", " ", "S", "E", "T", " ", "X", "=", "2">>
\* 'DROP TABLE T'
C_DROP_T ==
    <<"D", "R", "O", "P", " ", "T", "A", "B", "L", "E", " ", "T">>
\* 'CREATE TABLE T (X INTEGER)'
C_CREATE_T ==
    <<"C", "R", "E", "A", "T", "E", " ", "T", "A", "B", "L", "E", " ", "T", " ", "(", "X", " ", "I", "N", "T", "E", "G", "E", "R", ")">>
\* 'CREATE TABLE TEMP.V (X INTEGER)'
C_CREATE_TEMP_V ==
    <<"C", "R", "E", "A", "T", "E", " ", "T", "A", "B", "L", "E", " ", "T", "E", "M", "P", ".", "V", " ", "(", "X", " ", "I", "N", "T", "E", "G", "E", "R", ")">>
\* "SELECT NAME FROM SQLITE_MASTER WHERE TYPE='TABLE'"
C_LIST_TABLES ==
    <<"S", "E", "L", "E", "C", "T", " ", "N", "A", "M", "E", " ", "F", "R", "O", "M", " ", "S", "Q", "L", "I", "T", "E", "_", "M", "A", "S", "T", "E", "R", " ", "W", "H", "E", "R", "E", " ", "T", "Y", "P", "E", "=", "'", "T", "A", "B", "L", "E", "'">>
\* 'PRAGMA TABLE_INFO(T)'
C_PRAGMA_T ==
    <<"P", "R", "A", "G", "M", "A", " ", "T", "A", "B", "L", "E", "_", "I", "N", "F", "O", "(", "T", ")">>

(***************************************************************************)
(* The database behind the handle: the main schema's catalog (table names  *)
(* in sqlite_master order), the temp schema's catalog, and each table's    *)
(* rows (the values of its single INTEGER column x).                       *)
(***************************************************************************)
TableNames == {"t", "v"}

EmptyDb ==
    [catalog |-> <<>>, temp |-> <<>>, rows |-> [n \in TableNames |-> <<>>]]

InSeq(x, s) == \E i \in 1..Len(s) : s[i] = x

HasTable(d, n) == InSeq(n, d.catalog) \/ InSeq(n, d.temp)

RECURSIVE Without(_, _)
Without(s, x) ==
    IF Len(s) = 0 THEN <<>>
    ELSE IF Head(s) = x THEN Without(Tail(s), x)
    ELSE <<Head(s)>> \o Without(Tail(s), x)

(***************************************************************************)
(* JSON values and JSON.stringify(value, null, 2).                         *)
(***************************************************************************)
JInt(n) == [t |-> "int", n |-> n, s |-> ""]
JStr(s) == [t |-> "str", n |-> 0, s |-> s]
JNull == [t |-> "null", n |-> 0, s |-> ""]
JField(k, v) == [k |-> k, v |-> v]
JArray(objects) == [isArray |-> TRUE, items |-> objects]
JObject(fields) == [isArray |-> FALSE, items |-> <<fields>>]

ScalarText(v) ==
    CASE v.t = "int" -> ToString(v.n)
      [] v.t = "str" -> "\"" \o v.s \o "\""
      [] OTHER -> "null"

RECURSIVE FieldsText(_, _)
FieldsText(fields, indent) ==
    IF Len(fields) = 0 THEN ""
    ELSE indent \o "\"" \o Head(fields).k \o "\": " \o ScalarText(Head(fields).v)
         \o (IF Len(fields) > 1 THEN ",\n" ELSE "\n")
         \o FieldsText(Tail(fields), indent)

ObjectText(fields, indent) ==
    IF Len(fields) = 0 THEN "{}"
    ELSE "{\n" \o FieldsText(fields, indent \o "  ") \o indent \o "}"

RECURSIVE ItemsText(_)
ItemsText(items) ==
    IF Len(items) = 0 THEN ""
    ELSE "  " \o ObjectText(Head(items), "  ")
         \o (IF Len(items) > 1 THEN ",\n" ELSE "\n")
         \o ItemsText(Tail(items))

JsonStringify(value) ==
    IF value.isArray
    THEN IF Len(value.items) = 0 THEN "[]" ELSE "[\n" \o ItemsText(value.items) \o "]"
    ELSE ObjectText(value.items[1], "")

(***************************************************************************)
(* The engine: db.prepare(sql), stmt.all() and stmt.run() of the           *)
(* better-sqlite3 handle, on the statement forms listed above.             *)
(***************************************************************************)
\* The tokenizer skips "--" comments up to the end of the line.
\* Index of the end of the line of s that holds position i.
RECURSIVE SkipLine(_, _)
SkipLine(s, i) ==
    IF i > Len(s) \/ s[i] = "\n" THEN i ELSE SkipLine(s, i + 1)

\* Index of the first "--" of s at or after i, or Len(s) + 1.
RECURSIVE CommentStart(_, _)
CommentStart(s, i) ==
    IF i > Len(s) THEN i
    ELSE IF i < Len(s) /\ s[i] = "-" /\ s[i + 1] = "-" THEN i
    ELSE CommentStart(s, i + 1)

\* s from position i on, without its comments.
RECURSIVE StripFrom(_, _)
StripFrom(s, i) ==
    IF i > Len(s) THEN <<>>
    ELSE LET c == CommentStart(s, i)
         IN  SubSeq(s, i, c - 1) \o StripFrom(s, SkipLine(s, c))

StripComments(s) == StripFrom(s, 1)

\* Index of the first ";" of s, or Len(s) + 1.
RECURSIVE StatementEnd(_, _)
StatementEnd(s, i) ==
    IF i > Len(s) \/ s[i] = ";" THEN i ELSE StatementEnd(s, i + 1)

FirstStatement(s) == SubSeq(s, 1, StatementEnd(s, 1) - 1)

TailStatements(s) == SubSeq(s, StatementEnd(s, 1) + 1, Len(s))

\* The SQL texts and table names the requests of the model carry.
Queries ==
    {Q_SELECT_T, Q_select_t_ws, Q_SELECTED, Q_COMMENT_SELECT, Q_INSERT_T,
     Q_UPDATE_T, Q_DROP_T, Q_CREATE_T, Q_CREATE_TEMP_V}

Names == {N_t, N_comment, N_inject}

Statement(kind, table, schema, value) ==
    [kind |-> kind, table |-> table, schema |-> schema, value |-> value]

ParseStatement(c) ==
    CASE c = C_SELECT_1 -> Statement("select_const", "", "", 1)
      [] c = C_SELECT_T -> Statement("select_all", "t", "main", 0)
      [] c = C_LIST_TABLES -> Statement("select_master", "", "main", 0)
      [] c = C_INSERT_T -> Statement("insert", "t", "main", 1)
      [] c = C_UPDATE_T -> Statement("update", "t", "main", 2)
      [] c = C_DROP_T -> Statement("drop", "t", "main", 0)
      [] c = C_CREATE_T -> Statement("create", "t", "main", 0)
      [] c = C_CREATE_TEMP_V -> Statement("create", "v", "temp", 0)
      [] c = C_PRAGMA_T -> Statement("table_info", "t", "", 0)
      [] OTHER -> Statement("syntax_error", "", "", 0)

\* Compilation of a text, as far as it does not depend on the schema: the
\* first statement, its parse, and whether more text follows it.
CompileFirst(first, text) ==
    [first |-> first,
     stmt |-> ParseStatement(toUpperCase(first)),
     more |-> Len(trim(TailStatements(text))) > 0]

CompileText(text) == CompileFirst(trim(FirstStatement(text)), text)

Compile(sql) == CompileText(StripComments(sql))

\* Compile on the texts that reach the handle, computed once.
Compiled ==
    [sql \in Queries \cup {SQL_LIST_TABLES}
              \cup {PRAGMA_OPEN \o n \o PRAGMA_CLOSE : n \in Names} |-> Compile(sql)]

Prepared(stmt) == [ok |-> TRUE, message |-> "", stmt |-> stmt]

PrepareError(message) ==
    [ok |-> FALSE, message |-> message, stmt |-> Statement("none", "", "", 0)]

\* The compiled text c checked against the schema of d.
PrepareCompiled(c, d) ==
    IF Len(c.first) = 0
    THEN PrepareError("The supplied SQL string contains no statements")
    ELSE IF c.stmt.kind = "syntax_error"
    THEN PrepareError("near \"" \o CharsToString(c.first) \o "\": syntax error")
    ELSE IF c.stmt.kind \in {"select_all", "insert", "update", "drop"}
            /\ ~HasTable(d, c.stmt.table)
    THEN PrepareError("no such table: " \o c.stmt.table)
    ELSE IF c.stmt.kind = "create" /\ HasTable(d, c.stmt.table)
    THEN PrepareError("table " \o c.stmt.table \o " already exists")
    ELSE IF c.more
    THEN PrepareError("The supplied SQL string contains more than one statement")
    ELSE Prepared(c.stmt)

\* db.prepare(sql): compiles the first statement against the schema, then
\* refuses text that holds no statement or more than one.
prepare(sql, d) ==
    PrepareCompiled(IF sql \in DOMAIN Compiled THEN Compiled[sql] ELSE Compile(sql), d)

ReturnsData(stmt) ==
    stmt.kind \in {"select_const", "select_all", "select_master", "table_info"}

\* One object per element of xs, holding it under the column name.
RECURSIVE RowObjects(_, _)
RowObjects(column, xs) ==
    IF Len(xs) = 0 THEN <<>>
    ELSE << <<JField(column, Head(xs))>> >> \o RowObjects(column, Tail(xs))

RECURSIVE MapJInt(_)
MapJInt(xs) == IF Len(xs) = 0 THEN <<>> ELSE <<JInt(Head(xs))>> \o MapJInt(Tail(xs))

RECURSIVE MapJStr(_)
MapJStr(xs) == IF Len(xs) = 0 THEN <<>> ELSE <<JStr(Head(xs))>> \o MapJStr(Tail(xs))

RECURSIVE Fill(_, _)
Fill(xs, v) == IF Len(xs) = 0 THEN <<>> ELSE <<v>> \o Fill(Tail(xs), v)

TableInfoRow ==
    <<JField("cid", JInt(0)), JField("name", JStr("x")),
      JField("type", JStr("INTEGER")), JField("notnull", JInt(0)),
      JField("dflt_value", JNull), JField("pk", JInt(0))>>

\* The rows a data-returning statement yields.
StatementRows(stmt, d) ==
    CASE stmt.kind = "select_const" -> << <<JField("1", JInt(stmt.value))>> >>
      [] stmt.kind = "select_all" -> RowObjects("x", MapJInt(d.rows[stmt.table]))
      [] stmt.kind = "select_master" ->
            RowObjects("name", MapJStr(d.catalog))
      [] stmt.kind = "table_info" ->
            IF HasTable(d, stmt.table) THEN <<TableInfoRow>> ELSE <<>>
      [] OTHER -> <<>>

\* stmt.all(): only for statements that return data.
all(stmt, d) ==
    IF ReturnsData(stmt)
    THEN [ok |-> TRUE, message |-> "", rows |-> StatementRows(stmt, d)]
    ELSE [ok |-> FALSE,
          message |-> "This statement does not return data. Use run() instead",
          rows |-> <<>>]

\* The database after stmt.run().
RunDb(stmt, d) ==
    CASE stmt.kind = "insert" ->
            [d EXCEPT !.rows[stmt.table] = Append(@, stmt.value)]
      [] stmt.kind = "update" ->
            [d EXCEPT !.rows[stmt.table] = Fill(@, stmt.value)]
      [] stmt.kind = "drop" ->
            [d EXCEPT !.catalog = Without(@, stmt.table),
                      !.temp = Without(@, stmt.table),
                      !.rows[stmt.table] = <<>>]
      [] stmt.kind = "create" /\ stmt.schema = "temp" ->
            [d EXCEPT !.temp = Append(@, stmt.table)]
      [] stmt.kind = "create" -> [d EXCEPT !.catalog = Append(@, stmt.table)]
      [] OTHER -> d

\* The row count stmt.run() reports in result.changes.
RunChanges(stmt, d) ==
    CASE stmt.kind = "insert" -> 1
      [] stmt.kind = "update" -> Len(d.rows[stmt.table])
      [] OTHER -> 0

run(stmt, d) == [db |-> RunDb(stmt, d), changes |-> RunChanges(stmt, d)]

(***************************************************************************)
(* Argument values and the zod schemas (z.object({field: z.string()})).    *)
(***************************************************************************)
JsUndefined == [t |-> "undefined", chars |-> <<>>]
JsNull == [t |-> "null", chars |-> <<>>]
JsNumber == [t |-> "number", chars |-> <<>>]
JsString(chars) == [t |-> "string", chars |-> chars]

NoArguments ==
    [kind |-> "undefined", query |-> JsUndefined, table_name |-> JsUndefined]

ArgumentsObject(query, table_name) ==
    [kind |-> "object", query |-> query, table_name |-> table_name]

\* Each schema is an object with one required string field.
ReadQueryArgsSchema == "query"

WriteQueryArgsSchema == "query"

CreateTableArgsSchema == "query"

DescribeTableArgsSchema == "table_name"

FieldOf(args, field) == IF field = "query" THEN args.query ELSE args.table_name

\* ZodError.toString(): the issue list as indented JSON.
ZodErrorText(expected, received, path) ==
    "[\n  {\n    \"code\": \"invalid_type\",\n    \"expected\": \"" \o expected
    \o "\",\n    \"received\": \"" \o received \o "\",\n    \"path\": "
    \o (IF path = "" THEN "[]" ELSE "[\n      \"" \o path \o "\"\n    ]")
    \o ",\n    \"message\": \""
    \o (IF received = "undefined" THEN "Required"
        ELSE "Expected " \o expected \o ", received " \o received)
    \o "\"\n  }\n]"

\* safeParse of a schema whose field accepts any value (z.any()).
safeParseAny(schema, args) ==
    IF args.kind # "object"
    THEN [success |-> FALSE, data |-> <<>>,
          error |-> ZodErrorText("object", args.kind, "")]
    ELSE [success |-> TRUE, data |-> FieldOf(args, schema).chars, error |-> ""]

safeParse(schema, args) ==
    IF args.kind # "object"
    THEN [success |-> FALSE, data |-> <<>>,
          error |-> ZodErrorText("object", args.kind, "")]
    ELSE IF FieldOf(args, schema).t # "string"
    THEN [success |-> FALSE, data |-> <<>>,
          error |-> ZodErrorText("string", FieldOf(args, schema).t, schema)]
    ELSE [success |-> TRUE, data |-> FieldOf(args, schema).chars, error |-> ""]

(***************************************************************************)
(* class SqliteDatabase.  A method either returns a value or throws; both  *)
(* outcomes carry the database afterwards and the texts given to           *)
(* db.prepare on the way.                                                  *)
(***************************************************************************)
NoValue == JArray(<<>>)

Return(value, d, texts) ==
    [threw |-> FALSE, message |-> "", value |-> value, db |-> d, prepared |-> texts]

Throw(message, d, texts) ==
    [threw |-> TRUE, message |-> message, value |-> NoValue, db |-> d,
     prepared |-> texts]

\* return stmt.all(params) as T[]
QueryAll(rows, sql, d) ==
    IF ~rows.ok THEN Throw(rows.message, d, <<sql>>)
    ELSE Return(JArray(rows.rows), d, <<sql>>)

\* const stmt = this.db.prepare(sql), and the rest of query
QueryPrepared(stmt, sql, d) ==
    IF ~stmt.ok THEN Throw(stmt.message, d, <<sql>>)
    ELSE QueryAll(all(stmt.stmt, d), sql, d)

query(sql, d) == QueryPrepared(prepare(sql, d), sql, d)

\* const result = stmt.run(params); return { changes: result.changes }
ExecuteRun(result, sql) ==
    Return(JObject(<<JField("changes", JInt(result.changes))>>), result.db, <<sql>>)

\* execute that prepares the statement and never runs it.
ExecutePreparedNoRun(stmt, sql, d) ==
    IF ~stmt.ok THEN Throw(stmt.message, d, <<sql>>)
    ELSE Return(JObject(<<JField("changes", JInt(0))>>), d, <<sql>>)

\* const stmt = this.db.prepare(sql), and the rest of execute
ExecutePrepared(stmt, sql, d) ==
    IF ~stmt.ok THEN Throw(stmt.message, d, <<sql>>)
    ELSE ExecuteRun(run(stmt.stmt, d), sql)

execute(sql, d) == ExecutePrepared(prepare(sql, d), sql, d)

listTables(d) == query(SQL_LIST_TABLES, d)

describeTable(tableName, d) == query(PRAGMA_OPEN \o tableName \o PRAGMA_CLOSE, d)

\* executeReadQuery comparing the untrimmed text.
executeReadQueryNoTrim(sql, d) ==
    IF ~startsWith(toUpperCase(sql), KW_SELECT)
    THEN Throw("Only SELECT queries are allowed for read_query", d, <<>>)
    ELSE query(sql, d)

executeReadQuery(sql, d) ==
    IF ~startsWith(toUpperCase(trim(sql)), KW_SELECT)
    THEN Throw("Only SELECT queries are allowed for read_query", d, <<>>)
    ELSE query(sql, d)

executeWriteQuery(sql, d) ==
    IF startsWith(toUpperCase(trim(sql)), KW_SELECT)
    THEN Throw("SELECT queries are not allowed for write_query", d, <<>>)
    ELSE execute(sql, d)

\* createTable without its check.
createTableUngated(sql, d) == execute(sql, d)

\* createTable that executes the statement before checking it.
createTableGateAfter(sql, d) ==
    IF ~startsWith(toUpperCase(trim(sql)), KW_CREATE_TABLE)
    THEN Throw("Only CREATE TABLE statements are allowed", execute(sql, d).db, <<sql>>)
    ELSE execute(sql, d)

createTable(sql, d) ==
    IF ~startsWith(toUpperCase(trim(sql)), KW_CREATE_TABLE)
    THEN Throw("Only CREATE TABLE statements are allowed", d, <<>>)
    ELSE execute(sql, d)

(***************************************************************************)
(* The ListTools handler: the five tool definitions and their schemas.     *)
(***************************************************************************)
\* zodToJsonSchema(z.object({field: z.string().describe(description)}))
zodToJsonSchema(field, description) ==
    [type |-> "object",
     properties |-> <<[name |-> field, type |-> "string", description |-> description]>>,
     required |-> <<field>>,
     additionalProperties |-> "false",
     schema |-> "http://json-schema.org/draft-07/schema#"]

\* { type: 'object', properties: {} }
EmptyObjectSchema ==
    [type |-> "object", properties |-> <<>>, required |-> <<>>,
     additionalProperties |-> "", schema |-> ""]

Tool(name, description, inputSchema) ==
    [name |-> name, description |-> description, inputSchema |-> inputSchema]

\* The tool list with describe_table left out.
ListToolsResultShort ==
    <<Tool("read_query", "Execute a SELECT query on the SQLite database",
           zodToJsonSchema(ReadQueryArgsSchema, "SELECT SQL query to execute")),
      Tool("write_query",
           "Execute an INSERT, UPDATE, or DELETE query on the SQLite database",
           zodToJsonSchema(WriteQueryArgsSchema,
                           "INSERT, UPDATE, or DELETE SQL query to execute")),
      Tool("create_table", "Create a new table in the SQLite database",
           zodToJsonSchema(CreateTableArgsSchema, "CREATE TABLE SQL statement")),
      Tool("list_tables", "List all tables in the SQLite database", EmptyObjectSchema)>>

ListToolsResult ==
    <<Tool("read_query", "Execute a SELECT query on the SQLite database",
           zodToJsonSchema(ReadQueryArgsSchema, "SELECT SQL query to execute")),
      Tool("write_query",
           "Execute an INSERT, UPDATE, or DELETE query on the SQLite database",
           zodToJsonSchema(WriteQueryArgsSchema,
                           "INSERT, UPDATE, or DELETE SQL query to execute")),
      Tool("create_table", "Create a new table in the SQLite database",
           zodToJsonSchema(CreateTableArgsSchema, "CREATE TABLE SQL statement")),
      Tool("list_tables", "List all tables in the SQLite database", EmptyObjectSchema),
      Tool("describe_table", "Get the schema information for a specific table",
           zodToJsonSchema(DescribeTableArgsSchema, "Name of the table to describe"))>>

(***************************************************************************)
(* The CallTool handler: the switch on the tool name inside try, and the   *)
(* catch that turns whatever was thrown into the error envelope.           *)
(***************************************************************************)
NoResponse ==
    [kind |-> "none", content |-> <<>>, hasIsError |-> FALSE, isError |-> FALSE,
     tools |-> <<>>]

ToolsResponse(tools) == [NoResponse EXCEPT !.kind = "tools", !.tools = tools]

\* { content: [{ type: 'text', text }] }
Envelope(text) ==
    [NoResponse EXCEPT !.kind = "envelope",
                       !.content = <<[type |-> "text", text |-> text]>>]

\* { content: [{ type: 'text', text: `Error: ${errorMessage}` }], isError: true }
ErrorEnvelope(errorMessage) ==
    [Envelope("Error: " \o errorMessage) EXCEPT !.hasIsError = TRUE, !.isError = TRUE]

\* A request the handler rejected instead of answering.
Fault == [NoResponse EXCEPT !.kind = "fault"]

\* What a case of the switch returns or throws, with the text of its envelope.
Returning(text, r) ==
    [threw |-> r.threw, message |-> r.message, text |-> IF r.threw THEN "" ELSE text,
     value |-> r.value, db |-> r.db, prepared |-> r.prepared]

\* text: JSON.stringify(results, null, 2)
ReturningJson(results) == Returning(JsonStringify(results.value), results)

\* throw new Error(`Invalid arguments for ${tool}: ${parsed.error}`)
InvalidArguments(tool, parsed, d) ==
    Returning("", Throw("Invalid arguments for " \o tool \o ": " \o parsed.error,
                        d, <<>>))

ReadQueryParsed(parsed, d) ==
    IF ~parsed.success THEN InvalidArguments("read_query", parsed, d)
    ELSE ReturningJson(executeReadQuery(parsed.data, d))

ReadQueryCase(args, d) == ReadQueryParsed(safeParse(ReadQueryArgsSchema, args), d)

WriteQueryParsed(parsed, d) ==
    IF ~parsed.success THEN InvalidArguments("write_query", parsed, d)
    ELSE ReturningJson(executeWriteQuery(parsed.data, d))

WriteQueryCase(args, d) == WriteQueryParsed(safeParse(WriteQueryArgsSchema, args), d)

CreateTableParsed(parsed, d) ==
    IF ~parsed.success THEN InvalidArguments("create_table", parsed, d)
    ELSE Returning("Table created successfully", createTable(parsed.data, d))

CreateTableCase(args, d) ==
    CreateTableParsed(safeParse(CreateTableArgsSchema, args), d)

ListTablesCase(d) == ReturningJson(listTables(d))

DescribeTableParsed(parsed, d) ==
    IF ~parsed.success THEN InvalidArguments("describe_table", parsed, d)
    ELSE ReturningJson(describeTable(parsed.data, d))

DescribeTableCase(args, d) ==
    DescribeTableParsed(safeParse(DescribeTableArgsSchema, args), d)

\* A switch without its default case: an unknown name returns nothing.
DefaultCaseSilent(name, d) == Returning("", Return(NoValue, d, <<>>))

DefaultCase(name, d) == Returning("", Throw("Unknown tool: " \o name, d, <<>>))

TryBlock(name, args, d) ==
    CASE name = "read_query" -> ReadQueryCase(args, d)
      [] name = "write_query" -> WriteQueryCase(args, d)
      [] name = "create_table" -> CreateTableCase(args, d)
      [] name = "list_tables" -> ListTablesCase(d)
      [] name = "describe_table" -> DescribeTableCase(args, d)
      [] OTHER -> DefaultCase(name, d)

Handled(envelope, o) ==
    [response |-> envelope, value |-> o.value, db |-> o.db, prepared |-> o.prepared]

\* A handler without try/catch: what is thrown leaves the handler.
CatchBlockRethrow(o) ==
    IF o.threw THEN Handled(Fault, o) ELSE Handled(Envelope(o.text), o)

\* catch (error): the error envelope for what was thrown, else the returned one.
CatchBlock(o) ==
    IF o.threw THEN Handled(ErrorEnvelope(o.message), o)
    ELSE Handled(Envelope(o.text), o)

\* A handler that remembers a failure: once it returned an error envelope it
\* answers every call with one.
CallToolHandlerLatched(name, args, d) ==
    IF response.isError
    THEN CatchBlock(Returning("", Throw("Server is in a failed state", d, <<>>)))
    ELSE CatchBlock(TryBlock(name, args, d))

CallToolHandler(name, args, d) == CatchBlock(TryBlock(name, args, d))

(***************************************************************************)
(* Inputs.                                                                 *)
(***************************************************************************)
ToolNames ==
    {"read_query", "write_query", "create_table", "list_tables", "describe_table",
     "drop_table"}

Arguments ==
    {NoArguments,
     ArgumentsObject(JsUndefined, JsUndefined),
     ArgumentsObject(JsNumber, JsNull),
     ArgumentsObject(JsString(Q_DROP_T), JsString(N_t))}
    \cup {ArgumentsObject(JsString(q), JsUndefined) : q \in Queries}
    \cup {ArgumentsObject(JsUndefined, JsString(n)) : n \in Names}

\* What the database file may hold when the server starts.
InitialDbs ==
    {EmptyDb,
     [EmptyDb EXCEPT !.catalog = <<"t">>, !.rows["t"] = <<2>>]}

(***************************************************************************)
(* State and steps.                                                        *)
(***************************************************************************)
NoCall ==
    [op |-> "none", name |-> "", args |-> NoArguments, dbBefore |-> EmptyDb,
     value |-> NoValue]

NoRow == [set |-> FALSE, table |-> "", x |-> 0]

NoTable == [set |-> FALSE, table |-> ""]

NoListing == [set |-> FALSE, text |-> "", calls |-> 0]

NoReplay ==
    [db |-> EmptyDb, response |-> NoResponse, handled |-> FALSE,
     afterError |-> FALSE]

\* The replayed server was not sent the request.
Unanswered(r) == [NoReplay EXCEPT !.db = r.db]

\* The replayed server is sent only the requests it answers without an error
\* envelope: each one is handled from the request and its own database.
\* afterError: the server itself had just returned an error envelope.
ReplayOutcome(o, r) ==
    IF o.response.isError
    THEN [Unanswered(r) EXCEPT !.afterError = response.isError]
    ELSE [db |-> o.db, response |-> o.response, handled |-> TRUE,
          afterError |-> response.isError]

Replayed(name, args, r) == ReplayOutcome(CatchBlock(TryBlock(name, args, r.db)), r)

Init ==
    /\ pc = "start"
    /\ db \in InitialDbs
    /\ call = NoCall
    /\ response = NoResponse
    /\ prepared = <<>>
    /\ tracked = NoRow
    /\ created = NoTable
    /\ listed = NoListing
    /\ pending = <<>>
    /\ invocations = {}
    /\ thread = 0
    /\ served = <<>>
    /\ base = EmptyDb
    /\ replay = [NoReplay EXCEPT !.db = db]

\* Startup: argument count check, new Database(dbPath), server.connect.
Boot(argc, opens, connects) ==
    /\ pc = "start"
    /\ pc' = IF argc # 1 THEN "exited"
             ELSE IF ~opens THEN "crashed"
             ELSE IF ~connects THEN "exited"
             ELSE "serving"
    /\ UNCHANGED <<db, call, response, prepared, tracked, created, listed>>
    /\ UNCHANGED <<pending, invocations, thread, served, base, replay>>

OnListTools ==
    /\ pc = "serving"
    /\ response' = ToolsResponse(ListToolsResult)
    /\ call' = [NoCall EXCEPT !.op = "tools/list", !.dbBefore = db]
    /\ prepared' = <<>>
    /\ replay' = Unanswered(replay)
    /\ UNCHANGED <<pc, db, tracked, created, listed>>
    /\ UNCHANGED <<pending, invocations, thread, served, base>>

\* The statement a successful invocation ran, if it ran one.
StatementRun(o, d) ==
    IF ~o.response.isError /\ Len(o.prepared) = 1
    THEN prepare(o.prepared[1], d).stmt
    ELSE Statement("none", "", "", 0)

OnCallTool(name, args) ==
    /\ pc = "serving"
    /\ \E o \in {CallToolHandler(name, args, db)} :
         \E ran \in {StatementRun(o, db)} :
           /\ \A n \in TableNames : Len(o.db.rows[n]) <= MaxRows
           /\ db' = o.db
           /\ response' = o.response
           /\ prepared' = o.prepared
           /\ call' = [op |-> "tools/call", name |-> name, args |-> args,
                       dbBefore |-> db, value |-> o.value]
           /\ tracked' =
                IF name = "write_query" /\ ran.kind = "insert"
                THEN [set |-> TRUE, table |-> ran.table, x |-> ran.value]
                ELSE IF ran.kind \in {"update", "drop"}
                        /\ ran.table = tracked.table
                THEN NoRow
                ELSE tracked
           /\ created' =
                IF name = "create_table" /\ ran.kind = "create"
                THEN [set |-> TRUE, table |-> ran.table]
                ELSE IF ran.kind = "drop" /\ ran.table = created.table
                THEN NoTable
                ELSE created
           /\ listed' =
                IF name \in {"write_query", "create_table"} /\ ~o.response.isError
                THEN NoListing
                ELSE IF ~listed.set /\ name = "list_tables" /\ ~o.response.isError
                THEN [set |-> TRUE, text |-> o.response.content[1].text, calls |-> 0]
                ELSE IF listed.set
                THEN [listed EXCEPT !.calls = IF @ < 2 THEN @ + 1 ELSE @]
                ELSE listed
    /\ replay' = Replayed(name, args, replay)
    /\ UNCHANGED <<pc, pending, invocations, thread, served, base>>

Next ==
    \/ \E argc \in 0..2, opens \in BOOLEAN, connects \in BOOLEAN :
          Boot(argc, opens, connects)
    \/ OnListTools
    \/ \E name \in ToolNames, args \in Arguments : OnCallTool(name, args)

Spec == Init /\ [][Next]_vars

(***************************************************************************)
(* Several tool-call requests pending at once.  The CallTool handler is    *)
(* followed step by step: each invocation runs on the one JavaScript       *)
(* thread from its entry to its return, giving the thread up only where    *)
(* its body awaits.                                                        *)
(***************************************************************************)
\* The requests a client sends in a burst.
BurstRequests ==
    {[name |-> "write_query", args |-> ArgumentsObject(JsString(Q_INSERT_T), JsUndefined)],
     [name |-> "write_query", args |-> ArgumentsObject(JsString(Q_DROP_T), JsString(N_t))],
     [name |-> "write_query", args |-> ArgumentsObject(JsString(Q_SELECT_T), JsUndefined)],
     [name |-> "read_query", args |-> ArgumentsObject(JsString(Q_SELECT_T), JsUndefined)],
     [name |-> "create_table", args |-> ArgumentsObject(JsString(Q_CREATE_T), JsUndefined)],
     [name |-> "list_tables", args |-> NoArguments],
     [name |-> "describe_table", args |-> ArgumentsObject(JsUndefined, JsString(N_t))],
     [name |-> "drop_table", args |-> NoArguments]}

\* A driver whose calls are promises the handler does not hold the thread for.
SuspensionPointsAsyncDriver == {"calling"}

\* The places of the handler's body where it awaits: the body has no await,
\* and query and execute return what the synchronous driver returned.
SuspensionPoints == {}

NoOutcome == Handled(NoResponse, Return(NoValue, EmptyDb, <<>>))

\* async request => { ... }: one activation of the handler.
Invocation(id, name, args) ==
    [id |-> id, name |-> name, args |-> args, at |-> "entered", calls |-> 0,
     open |-> 0, found |-> EmptyDb, outcome |-> NoOutcome, envelope |-> NoResponse]

RECURSIVE Remove(_, _)
Remove(s, k) ==
    IF s = <<>> THEN <<>>
    ELSE IF k = 1 THEN Tail(s)
    ELSE <<Head(s)>> \o Remove(Tail(s), k - 1)

\* The requests of the burst so far: waiting, running and returned.
BurstSize == Len(pending) + Cardinality(invocations) + Len(served)

\* The thread is the invocation's, or is idle and may resume it.
MayRun(i) == thread = i.id \/ thread = 0

\* The thread after the invocation reached a place of its body.
ThreadAt(i, at) == IF at \in SuspensionPoints THEN 0 ELSE i.id

\* The transport reads a tools/call request.
Receive(name, args) ==
    /\ pc = "serving"
    /\ IF pending = <<>> /\ invocations = {}
       THEN /\ pending' = <<[id |-> 1, name |-> name, args |-> args]>>
            /\ served' = <<>>
            /\ base' = db
       ELSE /\ BurstSize < MaxPending
            /\ pending' = Append(pending, [id |-> BurstSize + 1, name |-> name,
                                           args |-> args])
            /\ UNCHANGED <<served, base>>
    /\ UNCHANGED <<pc, db, call, response, prepared, tracked, created, listed,
                   invocations, thread, replay>>

\* The handler is entered for a waiting request: const { name, arguments: args }.
Dispatch(k) ==
    /\ thread = 0
    /\ k \in 1..Len(pending)
    /\ invocations' = invocations
          \cup {Invocation(pending[k].id, pending[k].name, pending[k].args)}
    /\ pending' = Remove(pending, k)
    /\ thread' = pending[k].id
    /\ UNCHANGED <<pc, db, call, response, prepared, tracked, created, listed,
                   served, base, replay>>

\* The switch up to the database call of its case, or to the throw or the
\* return of a case that makes none.
AtCall(i, o) ==
    IF o.prepared = <<>>
    THEN [i EXCEPT !.at = "settled", !.found = db, !.outcome = o]
    ELSE [i EXCEPT !.at = "calling", !.found = db, !.calls = Len(o.prepared),
                   !.open = 1]

Call(i) ==
    /\ i.at = "entered"
    /\ MayRun(i)
    /\ \E j \in {AtCall(i, CallToolHandler(i.name, i.args, db))} :
         /\ invocations' = (invocations \ {i}) \cup {j}
         /\ thread' = ThreadAt(i, j.at)
    /\ UNCHANGED <<pc, db, call, response, prepared, tracked, created, listed,
                   pending, served, base, replay>>

\* The database call ends: stmt.all or stmt.run returned or threw.
Finish(i) ==
    /\ i.at = "calling"
    /\ MayRun(i)
    /\ \E o \in {CallToolHandler(i.name, i.args, db)} :
         /\ \A n \in TableNames : Len(o.db.rows[n]) <= MaxRows
         /\ db' = o.db
         /\ invocations' = (invocations \ {i})
               \cup {[i EXCEPT !.at = "settled", !.open = 0, !.outcome = o]}
    /\ thread' = ThreadAt(i, "settled")
    /\ UNCHANGED <<pc, call, response, prepared, tracked, created, listed,
                   pending, served, base, replay>>

\* The envelope is built: the return of the case, or the catch block.
Wrap(i) ==
    /\ i.at = "settled"
    /\ MayRun(i)
    /\ invocations' = (invocations \ {i})
          \cup {[i EXCEPT !.at = "wrapped", !.envelope = i.outcome.response]}
    /\ thread' = ThreadAt(i, "wrapped")
    /\ UNCHANGED <<pc, db, call, response, prepared, tracked, created, listed,
                   pending, served, base, replay>>

\* The handler returns its envelope.
ReturnEnvelope(i) ==
    /\ i.at = "wrapped"
    /\ MayRun(i)
    /\ invocations' = invocations \ {i}
    /\ thread' = 0
    /\ response' = i.envelope
    /\ prepared' = i.outcome.prepared
    /\ call' = [op |-> "tools/call", name |-> i.name, args |-> i.args,
                dbBefore |-> i.found, value |-> i.outcome.value]
    /\ served' = Append(served, [name |-> i.name, args |-> i.args,
                                 calls |-> i.calls, response |-> i.envelope])
    /\ UNCHANGED <<pc, db, tracked, created, listed, pending, base, replay>>

NextPending ==
    \/ \E argc \in 0..2, opens \in BOOLEAN, connects \in BOOLEAN :
          Boot(argc, opens, connects)
    \/ \E r \in BurstRequests : Receive(r.name, r.args)
    \/ \E k \in 1..MaxPending : Dispatch(k)
    \/ \E i \in invocations : Call(i)
    \/ \E i \in invocations : Finish(i)
    \/ \E i \in invocations : Wrap(i)
    \/ \E i \in invocations : ReturnEnvelope(i)

SpecPending == Init /\ [][NextPending]_vars

(***************************************************************************)
(* Vocabulary of the properties, stated on the request and on what the     *)
(* handler left behind.                                                    *)
(***************************************************************************)
DeclaredTools ==
    <<"read_query", "write_query", "create_table", "list_tables", "describe_table">>

QueryTools == {"read_query", "write_query", "create_table"}

Called == call.op = "tools/call"

Discovered == call.op = "tools/list"

\* The argument the called tool requires.
RequiredName == IF call.name = "describe_table" THEN "table_name" ELSE "query"

Required == FieldOf(call.args, RequiredName)

ArgumentsValid == call.args.kind = "object" /\ Required.t = "string"

\* text, after its leading white space, spells keyword in either case.
BeginsWithKeyword(text, keyword) ==
    \E k \in 0..Len(text) :
        /\ \A i \in 1..k : text[i] \in WhiteSpace
        /\ k < Len(text) => text[k + 1] \notin WhiteSpace
        /\ Len(text) >= k + Len(keyword)
        /\ \A i \in 1..Len(keyword) : UpperChar(text[k + i]) = keyword[i]

\* The statement kind each tool permits.
GatePermits(tool, text) ==
    CASE tool = "read_query" -> BeginsWithKeyword(text, KW_SELECT)
      [] tool = "write_query" -> ~BeginsWithKeyword(text, KW_SELECT)
      [] tool = "create_table" -> BeginsWithKeyword(text, KW_CREATE_TABLE)
      [] OTHER -> TRUE

GateMessage(tool) ==
    CASE tool = "read_query" -> "Only SELECT queries are allowed for read_query"
      [] tool = "write_query" -> "SELECT queries are not allowed for write_query"
      [] OTHER -> "Only CREATE TABLE statements are allowed"

NameFails == \A i \in 1..Len(DeclaredTools) : DeclaredTools[i] # call.name

ArgumentsFail == ~NameFails /\ call.name # "list_tables" /\ ~ArgumentsValid

GateFails ==
    /\ call.name \in QueryTools
    /\ ArgumentsValid
    /\ ~GatePermits(call.name, Required.chars)

\* The text the request sends to the database when nothing stops it earlier.
SqlSent ==
    CASE call.name = "list_tables" -> SQL_LIST_TABLES
      [] call.name = "describe_table" -> PRAGMA_OPEN \o Required.chars \o PRAGMA_CLOSE
      [] OTHER -> Required.chars

DatabaseFails ==
    /\ ~NameFails /\ ~ArgumentsFail /\ ~GateFails
    /\ \/ ~prepare(SqlSent, call.dbBefore).ok
       \/ /\ call.name \in {"read_query", "list_tables", "describe_table"}
          /\ ~ReturnsData(prepare(SqlSent, call.dbBefore).stmt)

ExpectedMessage ==
    CASE NameFails -> "Unknown tool: " \o call.name
      [] ArgumentsFail ->
            "Invalid arguments for " \o call.name \o ": "
            \o safeParse(RequiredName, call.args).error
      [] GateFails -> GateMessage(call.name)
      [] ~prepare(SqlSent, call.dbBefore).ok -> prepare(SqlSent, call.dbBefore).message
      [] OTHER -> "This statement does not return data. Use run() instead"

SingleText ==
    /\ response.kind = "envelope"
    /\ Len(response.content) = 1
    /\ response.content[1].type = "text"

MarkedError == response.hasIsError /\ response.isError

DatabaseUntouched == prepared = <<>> /\ db = call.dbBefore

\* C1: every tools/call invocation, whatever the name and the arguments,
\* returns one envelope holding a single text item; the envelope has
\* isError = true and the text "Error: <message>" exactly when the name
\* resolution, the argument validation, the gate or the database call
\* failed, and carries no error mark otherwise.
C1_EveryCallReturnsEnvelope ==
    Called =>
        /\ SingleText
        /\ IF NameFails \/ ArgumentsFail \/ GateFails \/ DatabaseFails
           THEN MarkedError /\ response.content[1].text = "Error: " \o ExpectedMessage
           ELSE ~response.hasIsError /\ ~response.isError

C1_Witness ==
    /\ Called /\ DatabaseFails
    /\ MarkedError /\ Len(prepared) = 1

\* C2: for read_query, write_query and create_table, text whose kind the
\* tool does not permit fails with an error envelope before any database
\* call: nothing is prepared and the tables and rows are those of before.
C2_GateMismatchTouchesNothing ==
    (Called /\ GateFails) =>
        /\ SingleText /\ MarkedError
        /\ response.content[1].text = "Error: " \o GateMessage(call.name)
        /\ DatabaseUntouched

C2_Witness ==
    /\ Called /\ call.name = "read_query" /\ ArgumentsValid
    /\ Required.chars = Q_UPDATE_T
    /\ Len(call.dbBefore.rows["t"]) > 0
    /\ MarkedError /\ db = call.dbBefore

\* Whether the method behind tool lets text through to the database.
GateAccepts(tool, text) ==
    CASE tool = "read_query" -> Len(executeReadQuery(text, EmptyDb).prepared) = 1
      [] tool = "write_query" -> Len(executeWriteQuery(text, EmptyDb).prepared) = 1
      [] OTHER -> Len(createTable(text, EmptyDb).prepared) = 1

\* C3: on the trimmed, upper-cased text, read_query passes exactly the
\* texts that begin with SELECT, write_query exactly those that do not,
\* create_table exactly those that begin with CREATE TABLE; so every text
\* is accepted by exactly one of read_query and write_query, and whatever
\* create_table accepts write_query accepts too.
C3_GatesFollowTheKeyword ==
    (Called /\ call.name \in QueryTools /\ ArgumentsValid) =>
        /\ (Len(prepared) = 1) <=> GatePermits(call.name, Required.chars)
        /\ \A tool \in QueryTools :
              GateAccepts(tool, Required.chars) <=> GatePermits(tool, Required.chars)
        /\ GateAccepts("read_query", Required.chars)
              # GateAccepts("write_query", Required.chars)
        /\ GateAccepts("create_table", Required.chars)
              => GateAccepts("write_query", Required.chars)

C3_Witness ==
    /\ Called /\ call.name = "write_query" /\ ArgumentsValid
    /\ Required.chars = Q_CREATE_T
    /\ ~response.isError /\ HasTable(db, "t") /\ ~HasTable(call.dbBefore, "t")

\* C4: read_query, write_query, create_table and describe_table, called
\* without their required argument or with one that is not a string,
\* return an error envelope, make no database call, leave the database
\* unchanged and leave the process running.
C4_BadArgumentsAreAnError ==
    (Called /\ call.name \in QueryTools \cup {"describe_table"} /\ ~ArgumentsValid) =>
        /\ SingleText /\ MarkedError
        /\ DatabaseUntouched
        /\ pc = "serving"

C4_Witness ==
    /\ Called /\ call.name = "describe_table"
    /\ call.args.kind = "object" /\ call.args.table_name.t = "null"
    /\ MarkedError

\* C5: a call whose name is none of the five declared tools returns the
\* error envelope naming that tool, whatever its arguments are, and makes
\* no database call.
C5_UnknownToolIsNamed ==
    (Called /\ NameFails) =>
        /\ SingleText /\ MarkedError
        /\ response.content[1].text = "Error: Unknown tool: " \o call.name
        /\ DatabaseUntouched

C5_Witness ==
    /\ Called /\ call.name = "drop_table"
    /\ call.args = ArgumentsObject(JsString(Q_DROP_T), JsString(N_t))
    /\ HasTable(db, "t") /\ MarkedError

\* The statement the request's text compiles to.
SentStatement == Compile(SqlSent).stmt

\* The request is a write_query INSERT of one row into a table that exists.
InsertsOneRow ==
    /\ Called /\ call.name = "write_query" /\ ArgumentsValid
    /\ SentStatement.kind = "insert"
    /\ HasTable(call.dbBefore, SentStatement.table)

\* The request is a read_query that selects the rows of the tracked table.
ReadsTrackedTable ==
    /\ Called /\ call.name = "read_query" /\ ArgumentsValid
    /\ SentStatement.kind = "select_all"
    /\ SentStatement.table = tracked.table

\* C6: a write_query that inserts one row into an existing table succeeds
\* and reports one affected row, and the row is in the table afterwards;
\* as long as no later statement updated or removed that row, every
\* read_query selecting from the table returns it.
C6_InsertedRowIsRead ==
    /\ InsertsOneRow =>
          /\ SingleText /\ ~response.hasIsError
          /\ response.content[1].text = "{\n  \"changes\": 1\n}"
          /\ db.rows[SentStatement.table]
                = Append(call.dbBefore.rows[SentStatement.table], SentStatement.value)
    /\ (tracked.set /\ ReadsTrackedTable) =>
          /\ SingleText /\ ~response.hasIsError
          /\ \E i \in 1..Len(call.value.items) :
                call.value.items[i] = <<JField("x", JInt(tracked.x))>>
          /\ response.content[1].text = JsonStringify(call.value)

C6_Witness ==
    /\ tracked.set /\ ReadsTrackedTable
    /\ Len(db.rows[tracked.table]) = MaxRows
    /\ ~response.isError

\* The request is a create_table CREATE TABLE for a table that does not exist.
CreatesNewTable ==
    /\ Called /\ call.name = "create_table" /\ ArgumentsValid
    /\ SentStatement.kind = "create"
    /\ ~HasTable(call.dbBefore, SentStatement.table)

\* C7: a create_table call with a CREATE TABLE statement for a table that
\* does not yet exist answers "Table created successfully", and until the
\* table is dropped every list_tables call includes its name.
C7_CreatedTableIsListed ==
    /\ CreatesNewTable =>
          /\ SingleText /\ ~response.hasIsError
          /\ response.content[1].text = "Table created successfully"
    /\ (created.set /\ Called /\ call.name = "list_tables") =>
          /\ ~response.isError
          /\ \E i \in 1..Len(call.value.items) :
                call.value.items[i] = <<JField("name", JStr(created.table))>>

\* C8: list_tables leaves the database as it is, and a list_tables call
\* returns the text of the previous one whenever no write_query or
\* create_table succeeded in between, whatever failing or read-only calls
\* were made meanwhile.
C8_ListTablesRepeats ==
    [][(call'.op = "tools/call" /\ call'.name = "list_tables") =>
          /\ call' # call => db' = db
          /\ listed.set => response'.content[1].text = listed.text]_vars

C8_Witness ==
    /\ Called /\ call.name = "list_tables"
    /\ listed.set /\ listed.calls = 2
    /\ response.content[1].text = listed.text
    /\ HasTable(db, "t")

Letters == {LowerCase[i] : i \in 1..26} \cup {UpperCase[i] : i \in 1..26} \cup {"_"}

Digits == {"0", "1", "2", "3", "4", "5", "6", "7", "8", "9"}

\* An identifier: a letter or underscore, then letters, digits, underscores.
IsIdentifier(name) ==
    /\ Len(name) > 0
    /\ name[1] \in Letters
    /\ \A i \in 1..Len(name) : name[i] \in Letters \cup Digits

\* C9: describe_table rejects a table_name that is not an identifier
\* before the name is put into the introspection text: the call returns
\* an error envelope and no text built from that name reaches the database.
C9_DescribeTableChecksTheName ==
    (Called /\ call.name = "describe_table" /\ ArgumentsValid
        /\ ~IsIdentifier(Required.chars)) =>
        /\ MarkedError
        /\ prepared = <<>>

\* C10: tools/list always succeeds with the five tools read_query,
\* write_query, create_table, list_tables, describe_table in this order,
\* each with its input schema, whatever calls came before; it makes no
\* database call and changes nothing.
C10_DiscoveryIsFixed ==
    Discovered =>
        /\ response.kind = "tools"
        /\ Len(response.tools) = Len(DeclaredTools)
        /\ \A i \in 1..Len(DeclaredTools) :
              /\ response.tools[i].name = DeclaredTools[i]
              /\ response.tools[i].inputSchema.type = "object"
              /\ response.tools[i].inputSchema.required
                    = IF DeclaredTools[i] = "list_tables" THEN <<>>
                      ELSE IF DeclaredTools[i] = "describe_table" THEN <<"table_name">>
                      ELSE <<"query">>
              /\ \A j \in 1..Len(response.tools[i].inputSchema.required) :
                    /\ response.tools[i].inputSchema.properties[j].name
                          = response.tools[i].inputSchema.required[j]
                    /\ response.tools[i].inputSchema.properties[j].type = "string"
        /\ DatabaseUntouched
        /\ pc = "serving"

C10_Witness ==
    /\ Discovered /\ response.kind = "tools"
    /\ HasTable(db, "v") /\ Len(db.rows["t"]) > 0

(***************************************************************************)
(* Vocabulary of the properties on pending requests.                       *)
(***************************************************************************)
\* The invocations whose database call has begun and has not ended.
InFlight == {i \in invocations : i.open > 0}

\* The orders in which n requests can be served one after the other.
Orders(n) == {f \in [1..n -> 1..n] : \A a, b \in 1..n : a # b => f[a] # f[b]}

\* Serving the returned requests one at a time in the given order, from the
\* database the burst found, gives each its envelope and, once every
\* invocation has returned, the database as it is.
RECURSIVE SerialRun(_, _, _)
SerialStep(o, order, k) ==
    /\ o.response = served[order[k]].response
    /\ SerialRun(o.db, order, k + 1)

SerialRun(d, order, k) ==
    IF k > Len(served) THEN invocations = {} => d = db
    ELSE SerialStep(CatchBlock(TryBlock(served[order[k]].name,
                                        served[order[k]].args, d)), order, k)

SomeSerialOrder ==
    served # <<>> => \E order \in Orders(Len(served)) : SerialRun(base, order, 1)

\* C11: with several tool-call requests pending at once, invocations do
\* not interleave: an invocation makes at most one database call, the call
\* has ended when its envelope is built, no two invocations have a database
\* call in flight together (no two are inside the handler together), and
\* what the returned invocations answered and left in the database is what
\* serving them one at a time in some order gives.
C11_InvocationsDoNotInterleave ==
    /\ \A i \in invocations :
          /\ i.calls <= 1
          /\ i.open <= 1
          /\ i.envelope # NoResponse => i.open = 0
    /\ \A k \in 1..Len(served) : served[k].calls <= 1
    /\ Cardinality(InFlight) <= 1
    /\ Cardinality(invocations) <= 1
    /\ SomeSerialOrder

\* A second request waits while the database call of an insert, made on a
\* table that holds a row, is in flight.
C11_Witness ==
    /\ pending # <<>>
    /\ \E i \in invocations :
          /\ i.open = 1
          /\ i.calls = 1
          /\ i.name = "write_query"
          /\ i.args = ArgumentsObject(JsString(Q_INSERT_T), JsUndefined)
          /\ Len(i.found.rows["t"]) > 0

(***************************************************************************)
(* Vocabulary of the properties on the history of calls.                   *)
(***************************************************************************)
\* What the handler's body gives for the last request on the database that
\* request found, with nothing else to read.
Afresh == CatchBlock(TryBlock(call.name, call.args, call.dbBefore))

\* C12: the dispatcher keeps no state between calls: the envelope of a call
\* and the database after it are those the request and the database before
\* it give by themselves, whatever was called earlier; a call that returned
\* an error envelope left the database as it was; and every call is
\* answered, and leaves the database, exactly as on a server that was never
\* sent the calls that fail.
C12_NoRetainedState ==
    Called =>
        /\ response = Afresh.response
        /\ db = Afresh.db
        /\ MarkedError => db = call.dbBefore
        /\ replay.db = db
        /\ replay.handled => response = replay.response
        /\ ~replay.handled => MarkedError

\* A valid write_query answered right after a call that returned an error
\* envelope, on a database that earlier calls had changed.
C12_Witness ==
    /\ Called /\ ~MarkedError
    /\ replay.handled /\ replay.afterError
    /\ call.name = "write_query"
    /\ db # call.dbBefore
    /\ HasTable(db, "v")
====
